---- MODULE Spec2Model ----
(***************************************************************************)
(* A model of s3-market-ath.floros.py: the Trade record, the two Stock     *)
(* variants (CommonStock, PreferredStock) and the Market registry.         *)
(*                                                                         *)
(* Python values are modelled as follows.                                  *)
(*   - A str is a tuple of one-character strings, so that re.match can be  *)
(*     modelled character by character.  None is the tuple <<"None">>,     *)
(*     which is no character string.                                       *)
(*   - Numbers handed to the program are integers.  A float keeps          *)
(*     MantissaBits significant bits (53 in CPython, fewer here): adding   *)
(*     an int to a float converts the int and rounds the sum to the        *)
(*     nearest float, ties to the even mantissa.  A quotient a / b is kept *)
(*     as the exact fraction [num |-> a, den |-> b] of the two floats (the *)
(*     rounding of the quotient itself is left out); fractions are         *)
(*     compared by cross-multiplication.                                   *)
(*   - time.time() reads the variable clock, which only moves forward.     *)
(*   - A call either returns ("ok") or raises; the outcome of the last     *)
(*     call is kept in the variable result.                                *)
(*   - The program is sequential: a call is one action.  For the question  *)
(*     of what interleaved callers would see, buy_now and sell_now are     *)
(*     also given statement by statement (call_build, call_add_trade,      *)
(*     call_increment), each caller's position kept in calls.              *)
(***************************************************************************)
EXTENDS Integers, Sequences, FiniteSets, TLC

VARIABLES stocks_by_name,    \* Market.stocks_by_name: name -> stock object
          trade_id_counter,  \* Market.trade_id_counter
          clock,             \* the value time.time() returns
          result,            \* outcome of the last call
          ok_trades,         \* history: number of buy_now/sell_now calls that returned
          calls,             \* per caller: where its buy_now/sell_now call stands
          overlapped         \* history: a call began while another was under way

vars == <<stocks_by_name, trade_id_counter, clock, result, ok_trades, calls,
          overlapped>>

(* the state of the callers whose calls are followed statement by statement *)
threads == <<calls, overlapped>>

market == <<stocks_by_name, trade_id_counter>>

-----------------------------------------------------------------------------
(* Bounds of the model *)

\* successful buy_now/sell_now calls in a behaviour
MaxTrades == 2
\* times the clock advances in a behaviour
MaxTicks == 3
\* significant bits of a float
MantissaBits == 3

(* Program constant: the trailing window of get_volume_weighted_price *)
Window == 10

(* The clock advances in half-window steps, so that a trade can sit        *)
(* strictly inside the window, exactly on its edge, and outside it.        *)
TickStep == Window \div 2

-----------------------------------------------------------------------------
(* Python values *)

None == <<"None">>

Upper == {"A", "B", "C", "D", "E", "F", "G", "H", "I", "J", "K", "L", "M",
          "N", "O", "P", "Q", "R", "S", "T", "U", "V", "W", "X", "Y", "Z"}

TEA == <<"T", "E", "A">>
TEAX == <<"T", "E", "A", "X">>
ZZZ == <<"Z", "Z", "Z">>
TE == <<"T", "E">>
tea == <<"t", "e", "a">>

(* The names handed to the constructors: well-formed, too long, too short, *)
(* lower-case and absent.                                                  *)
NameArgs == {TEA, TEAX, TE, tea, None}

(* The names handed to the Market's lookups; ZZZ is never constructed *)
Symbols == {TEA, TEAX, ZZZ}

Frac(n, d) == [num |-> n, den |-> d]
Zero == Frac(0, 1)
FracEq(a, b) == a.num * b.den = b.num * a.den

Ok(v) == [status |-> "ok", msg |-> "", value |-> v]
Raise(exc, m) == [status |-> exc, msg |-> m, value |-> None]

RECURSIVE Pow2(_)
Pow2(k) == IF k = 0 THEN 1 ELSE 2 * Pow2(k - 1)

(* the distance between neighbouring floats at the magnitude of n >= 0 *)
RECURSIVE Ulp(_, _)
Ulp(n, u) == IF n < Pow2(MantissaBits) * u THEN u ELSE Ulp(n, 2 * u)

(* float(n) of an int n: the nearest float, ties to the even mantissa *)
RoundNat(n) ==
    LET u == Ulp(n, 1)
        m == n \div u
        r == n % u
    IN IF 2 * r < u THEN m * u
       ELSE IF 2 * r > u THEN (m + 1) * u
       ELSE IF m % 2 = 0 THEN m * u ELSE (m + 1) * u

Float(n) == IF n >= 0 THEN RoundNat(n) ELSE 0 - RoundNat(0 - n)

(* a + b, a a float and b an int: b is converted, the sum is rounded *)
FloatAdd(a, b) == Float(a + Float(b))

(* a / b *)
TrueDiv(a, b) == IF b = 0 THEN Raise("ZeroDivisionError", "division by zero")
                 ELSE Ok(Frac(a, b))

-----------------------------------------------------------------------------
(* class TradeIndicator *)
TradeIndicator == {"BUY", "SELL"}

(* class Trade *)
Trade(trade_id, stock_name, quantity, indicator, traded_price, timestamp) ==
    [trade_id |-> trade_id, stock_name |-> stock_name, quantity |-> quantity,
     indicator |-> indicator, traded_price |-> traded_price,
     timestamp |-> timestamp]

-----------------------------------------------------------------------------
(* class Stock *)

(* re.match("[A-Z]{3}", name): the pattern is matched at the start of the  *)
(* string and nothing anchors its end.                                     *)
is_valid_name(name) ==
    /\ name # None
    /\ Len(name) >= 3
    /\ \A i \in 1..3 : name[i] \in Upper

is_valid_price(stockName, price) == TRUE

(* Stock.__init__: the fields shared by the two variants *)
Stock_init(name, price) ==
    IF ~is_valid_name(name) THEN Raise("ValueError", "Invalid stock name")
    ELSE IF ~is_valid_price(name, price) THEN Raise("ValueError", "Invalid price")
    ELSE Ok([name |-> name, price |-> price, trades |-> <<>>])

(* set_price that also empties the trade log *)
set_price_clears_log(self, price) ==
    IF ~is_valid_price(self.name, price) THEN Raise("ValueError", "Invalid price")
    ELSE Ok([self EXCEPT !.price = price, !.trades = <<>>])

set_price(self, price) ==
    IF ~is_valid_price(self.name, price) THEN Raise("ValueError", "Invalid price")
    ELSE Ok([self EXCEPT !.price = price])

(* add_trade without the comparison of the two symbols *)
add_trade_unchecked(self, trade) ==
    LET r == set_price(self, trade.traded_price)
    IN IF r.status # "ok" THEN r
       ELSE Ok([r.value EXCEPT !.trades = Append(@, trade)])

(* add_trade that records the trade without taking over its price *)
add_trade_keeps_price(self, trade) ==
    IF trade.stock_name # self.name THEN Raise("ValueError", "Cannot trade")
    ELSE Ok([self EXCEPT !.trades = Append(@, trade)])

(* add_trade that keeps only the newest trade *)
add_trade_restarts_log(self, trade) ==
    IF trade.stock_name # self.name THEN Raise("ValueError", "Cannot trade")
    ELSE LET r == set_price(self, trade.traded_price)
         IN IF r.status # "ok" THEN r
            ELSE Ok([r.value EXCEPT !.trades = <<trade>>])

(* add_trade putting the new trade at the head of the log *)
add_trade_prepends(self, trade) ==
    IF trade.stock_name # self.name THEN Raise("ValueError", "Cannot trade")
    ELSE LET r == set_price(self, trade.traded_price)
         IN IF r.status # "ok" THEN r
            ELSE Ok([r.value EXCEPT !.trades = <<trade>> \o @])

add_trade(self, trade) ==
    IF trade.stock_name # self.name THEN Raise("ValueError", "Cannot trade")
    ELSE LET r == set_price(self, trade.traded_price)
         IN IF r.status # "ok" THEN r
            ELSE Ok([r.value EXCEPT !.trades = Append(@, trade)])

(* class CommonStock *)
CommonStock(name, last_dividend, price) ==
    LET r == Stock_init(name, price)
    IN IF r.status # "ok" THEN r
       ELSE Ok([kind |-> "CommonStock", name |-> r.value.name,
                price |-> r.value.price, trades |-> r.value.trades,
                last_dividend |-> last_dividend])

(* class PreferredStock *)
PreferredStock(name, fixed_dividend_ratio, par_value, price) ==
    LET r == Stock_init(name, price)
    IN IF r.status # "ok" THEN r
       ELSE Ok([kind |-> "PreferredStock", name |-> r.value.name,
                price |-> r.value.price, trades |-> r.value.trades,
                fixed_dividend_ratio |-> fixed_dividend_ratio,
                par_value |-> par_value])

(* CommonStock.get_dividend_yield *)
CommonStock_get_dividend_yield(self) ==
    IF self.price # 0 THEN TrueDiv(self.last_dividend, self.price)
    ELSE Ok(Zero)

(* PreferredStock.get_dividend_yield without the guard on a zero price *)
PreferredStock_get_dividend_yield_unguarded(self) ==
    TrueDiv(self.fixed_dividend_ratio * self.par_value, self.price)

(* PreferredStock.get_dividend_yield *)
PreferredStock_get_dividend_yield(self) ==
    IF self.price # 0
    THEN TrueDiv(self.fixed_dividend_ratio * self.par_value, self.price)
    ELSE Ok(Zero)

(* dynamic dispatch on the variant *)
get_dividend_yield(self) ==
    IF self.kind = "CommonStock" THEN CommonStock_get_dividend_yield(self)
    ELSE PreferredStock_get_dividend_yield(self)

(* vwp_scan with the window's edge left out: a trade exactly Window old    *)
(* ends the scan.                                                          *)
RECURSIVE vwp_scan_open_window(_, _, _, _, _)
vwp_scan_open_window(trades, i, limit, nominator, denominator) ==
    IF i = 0 THEN <<nominator, denominator>>
    ELSE IF trades[i].timestamp <= limit THEN <<nominator, denominator>>
    ELSE vwp_scan_open_window(trades, i - 1, limit,
                  FloatAdd(nominator, trades[i].traded_price * trades[i].quantity),
                  FloatAdd(denominator, trades[i].quantity))

(* vwp_scan started at the oldest trade: trades[1], trades[2], ... are     *)
(* visited, i counting the trades still to visit.                          *)
RECURSIVE vwp_scan_oldest_first(_, _, _, _, _)
vwp_scan_oldest_first(trades, i, limit, nominator, denominator) ==
    LET k == Len(trades) - i + 1
    IN IF i = 0 THEN <<nominator, denominator>>
       ELSE IF trades[k].timestamp < limit THEN <<nominator, denominator>>
       ELSE vwp_scan_oldest_first(trades, i - 1, limit,
                  FloatAdd(nominator, trades[k].traded_price * trades[k].quantity),
                  FloatAdd(denominator, trades[k].quantity))

(* The loop of get_volume_weighted_price: trades[i], trades[i-1], ... are  *)
(* visited until one is older than the limit; the pair returned is         *)
(* <<nominator, denominator>>.                                             *)
RECURSIVE vwp_scan(_, _, _, _, _)
vwp_scan(trades, i, limit, nominator, denominator) ==
    IF i = 0 THEN <<nominator, denominator>>
    ELSE IF trades[i].timestamp < limit THEN <<nominator, denominator>>
    ELSE vwp_scan(trades, i - 1, limit,
                  FloatAdd(nominator, trades[i].traded_price * trades[i].quantity),
                  FloatAdd(denominator, trades[i].quantity))

(* get_volume_weighted_price without the division by the quantities *)
get_volume_weighted_price_undivided(self, now) ==
    LET acc == vwp_scan(self.trades, Len(self.trades), now - Window, 0, 0)
    IN IF acc[2] # 0 THEN TrueDiv(acc[1], 1) ELSE Ok(Zero)

get_volume_weighted_price(self, now) ==
    LET acc == vwp_scan(self.trades, Len(self.trades), now - Window, 0, 0)
    IN IF acc[2] # 0 THEN TrueDiv(acc[1], acc[2]) ELSE Ok(Zero)

(* The attributes and methods a Stock object answers to *)
StockAttributes ==
    {"name", "price", "trades", "set_price", "is_valid_name", "is_valid_price",
     "add_trade", "get_dividend_yield", "get_volume_weighted_price",
     "is_common", "is_preferred", "__lt__", "__str__", "__eq__"}

(* s.get_price() as called by Market.get_geometric_mean *)
get_price(self) ==
    IF "get_price" \in StockAttributes THEN Ok(self.price)
    ELSE Raise("AttributeError", "object has no attribute 'get_price'")

-----------------------------------------------------------------------------
(* class Market *)

Outcome(op, r) == [op |-> op, status |-> r.status, msg |-> r.msg]

(* the callers of the market *)
Threads == {1, 2}

(* a caller that is not inside a call *)
Idle == [pc |-> "idle", op |-> "", trade |-> None]

InFlight == {th \in Threads : calls[th].pc # "idle"}

(* Market.__init__ *)
Init ==
    /\ stocks_by_name = <<>>
    /\ trade_id_counter = 1
    /\ clock = 0
    /\ ok_trades = 0
    /\ result = [op |-> "Market", status |-> "ok", msg |-> ""]
    /\ calls = [th \in Threads |-> Idle]
    /\ overlapped = FALSE

(* time passes between two calls *)
Tick ==
    /\ clock < MaxTicks * TickStep
    /\ clock' = clock + TickStep
    /\ UNCHANGED <<stocks_by_name, trade_id_counter, result, ok_trades, threads>>

(* CommonStock(name, last_dividend, price) *)
new_CommonStock(name, last_dividend, price) ==
    LET r == CommonStock(name, last_dividend, price)
    IN /\ result' = [op |-> "CommonStock", status |-> r.status, msg |-> r.msg,
                     name |-> name,
                     trades |-> IF r.status = "ok" THEN r.value.trades ELSE None]
       /\ UNCHANGED <<stocks_by_name, trade_id_counter, clock, ok_trades, threads>>

(* PreferredStock(name, fixed_dividend_ratio, par_value, price) *)
new_PreferredStock(name, fixed_dividend_ratio, par_value, price) ==
    LET r == PreferredStock(name, fixed_dividend_ratio, par_value, price)
    IN /\ result' = [op |-> "PreferredStock", status |-> r.status, msg |-> r.msg,
                     name |-> name,
                     trades |-> IF r.status = "ok" THEN r.value.trades ELSE None]
       /\ UNCHANGED <<stocks_by_name, trade_id_counter, clock, ok_trades, threads>>

(* register without the membership test: the new object replaces the old *)
register_overwrites(stock) ==
    /\ stocks_by_name' =
           (stock.name :> stock) @@
           [n \in DOMAIN stocks_by_name \ {stock.name} |-> stocks_by_name[n]]
    /\ result' = Outcome("register", Ok(None))
    /\ UNCHANGED <<trade_id_counter, clock, ok_trades, threads>>

register(stock) ==
    IF stock.name \in DOMAIN stocks_by_name
    THEN /\ result' = Outcome("register", Raise("ValueError", "Already registered"))
         /\ UNCHANGED <<stocks_by_name, trade_id_counter, clock, ok_trades, threads>>
    ELSE /\ stocks_by_name' = (stock.name :> stock) @@ stocks_by_name
         /\ result' = Outcome("register", Ok(None))
         /\ UNCHANGED <<trade_id_counter, clock, ok_trades, threads>>

(* buy_now that hands out its id again: the counter is not advanced *)
buy_now_reuses_id(stock_name, quantity, price) ==
    IF stock_name \notin DOMAIN stocks_by_name
    THEN /\ result' = Outcome("buy_now", Raise("ValueError", "Stock not found"))
         /\ UNCHANGED <<stocks_by_name, trade_id_counter, clock, ok_trades, threads>>
    ELSE LET t == Trade(trade_id_counter, stock_name, quantity, "BUY", price, clock)
             r == add_trade(stocks_by_name[stock_name], t)
         IN /\ r.status = "ok"
            /\ stocks_by_name' = [stocks_by_name EXCEPT ![stock_name] = r.value]
            /\ ok_trades' = ok_trades + 1
            /\ result' = [op |-> "buy_now", status |-> "ok", msg |-> "",
                          trade |-> t]
            /\ UNCHANGED <<trade_id_counter, clock, threads>>

(* buy_now taking the id before it knows that the trade is recorded *)
buy_now_counts_attempts(stock_name, quantity, price) ==
    IF stock_name \notin DOMAIN stocks_by_name
    THEN /\ result' = Outcome("buy_now", Raise("ValueError", "Stock not found"))
         /\ trade_id_counter' = trade_id_counter + 1
         /\ UNCHANGED <<stocks_by_name, clock, ok_trades, threads>>
    ELSE LET t == Trade(trade_id_counter, stock_name, quantity, "BUY", price, clock)
             r == add_trade(stocks_by_name[stock_name], t)
         IN /\ r.status = "ok"
            /\ stocks_by_name' = [stocks_by_name EXCEPT ![stock_name] = r.value]
            /\ trade_id_counter' = trade_id_counter + 1
            /\ ok_trades' = ok_trades + 1
            /\ result' = [op |-> "buy_now", status |-> "ok", msg |-> "",
                          trade |-> t]
            /\ UNCHANGED <<clock, threads>>

buy_now(stock_name, quantity, price) ==
    IF stock_name \notin DOMAIN stocks_by_name
    THEN /\ result' = Outcome("buy_now", Raise("ValueError", "Stock not found"))
         /\ UNCHANGED <<stocks_by_name, trade_id_counter, clock, ok_trades, threads>>
    ELSE LET t == Trade(trade_id_counter, stock_name, quantity, "BUY", price, clock)
             r == add_trade(stocks_by_name[stock_name], t)
         IN IF r.status # "ok"
            THEN /\ result' = Outcome("buy_now", r)
                 /\ UNCHANGED <<stocks_by_name, trade_id_counter, clock, ok_trades, threads>>
            ELSE /\ stocks_by_name' = [stocks_by_name EXCEPT ![stock_name] = r.value]
                 /\ trade_id_counter' = trade_id_counter + 1
                 /\ ok_trades' = ok_trades + 1
                 /\ result' = [op |-> "buy_now", status |-> "ok", msg |-> "",
                               trade |-> t]
                 /\ UNCHANGED <<clock, threads>>

(* sell_now taking the id before it knows that the trade is recorded *)
sell_now_counts_attempts(stock_name, quantity, price) ==
    IF stock_name \notin DOMAIN stocks_by_name
    THEN /\ result' = Outcome("sell_now", Raise("ValueError", "Stock not found"))
         /\ trade_id_counter' = trade_id_counter + 1
         /\ UNCHANGED <<stocks_by_name, clock, ok_trades, threads>>
    ELSE LET t == Trade(trade_id_counter, stock_name, quantity, "SELL", price, clock)
             r == add_trade(stocks_by_name[stock_name], t)
         IN /\ r.status = "ok"
            /\ stocks_by_name' = [stocks_by_name EXCEPT ![stock_name] = r.value]
            /\ trade_id_counter' = trade_id_counter + 1
            /\ ok_trades' = ok_trades + 1
            /\ result' = [op |-> "sell_now", status |-> "ok", msg |-> "",
                          trade |-> t]
            /\ UNCHANGED <<clock, threads>>

sell_now(stock_name, quantity, price) ==
    IF stock_name \notin DOMAIN stocks_by_name
    THEN /\ result' = Outcome("sell_now", Raise("ValueError", "Stock not found"))
         /\ UNCHANGED <<stocks_by_name, trade_id_counter, clock, ok_trades, threads>>
    ELSE LET t == Trade(trade_id_counter, stock_name, quantity, "SELL", price, clock)
             r == add_trade(stocks_by_name[stock_name], t)
         IN IF r.status # "ok"
            THEN /\ result' = Outcome("sell_now", r)
                 /\ UNCHANGED <<stocks_by_name, trade_id_counter, clock, ok_trades, threads>>
            ELSE /\ stocks_by_name' = [stocks_by_name EXCEPT ![stock_name] = r.value]
                 /\ trade_id_counter' = trade_id_counter + 1
                 /\ ok_trades' = ok_trades + 1
                 /\ result' = [op |-> "sell_now", status |-> "ok", msg |-> "",
                               trade |-> t]
                 /\ UNCHANGED <<clock, threads>>

(* A dict of new prices, as the sequence of its items in iteration order *)
RECURSIVE DistinctKeys(_)
DistinctKeys(items) ==
    \/ items = <<>>
    \/ /\ \A i \in 2..Len(items) : items[i][1] # items[1][1]
       /\ DistinctKeys(Tail(items))

PriceMaps(keys, prices, maxlen) ==
    {m \in UNION {[1..k -> keys \X prices] : k \in 0..maxlen} : DistinctKeys(m)}

(* update_loop giving up at the first name that is not registered *)
RECURSIVE update_loop_stops_at_unknown(_, _, _)
update_loop_stops_at_unknown(stocks, items, printed) ==
    IF items = <<>>
    THEN [status |-> "ok", msg |-> "", stocks |-> stocks, printed |-> printed]
    ELSE LET stock_name == Head(items)[1]
             new_price == Head(items)[2]
         IN IF stock_name \in DOMAIN stocks
            THEN LET r == set_price(stocks[stock_name], new_price)
                 IN IF r.status # "ok"
                    THEN [status |-> r.status, msg |-> r.msg,
                          stocks |-> stocks, printed |-> printed]
                    ELSE update_loop_stops_at_unknown(
                             [stocks EXCEPT ![stock_name] = r.value],
                             Tail(items), printed)
            ELSE [status |-> "ok", msg |-> "", stocks |-> stocks,
                  printed |-> Append(printed, stock_name)]

(* The loop of update_stock_prices over the items still to visit; printed  *)
(* collects the names reported as not found.                               *)
RECURSIVE update_loop(_, _, _)
update_loop(stocks, items, printed) ==
    IF items = <<>>
    THEN [status |-> "ok", msg |-> "", stocks |-> stocks, printed |-> printed]
    ELSE LET stock_name == Head(items)[1]
             new_price == Head(items)[2]
         IN IF stock_name \in DOMAIN stocks
            THEN LET r == set_price(stocks[stock_name], new_price)
                 IN IF r.status # "ok"
                    THEN [status |-> r.status, msg |-> r.msg,
                          stocks |-> stocks, printed |-> printed]
                    ELSE update_loop([stocks EXCEPT ![stock_name] = r.value],
                                     Tail(items), printed)
            ELSE update_loop(stocks, Tail(items), Append(printed, stock_name))

update_stock_prices(new_prices) ==
    LET r == update_loop(stocks_by_name, new_prices, <<>>)
    IN /\ stocks_by_name' = r.stocks
       /\ result' = [op |-> "update_stock_prices", status |-> r.status,
                     msg |-> r.msg, printed |-> Len(r.printed)]
       /\ UNCHANGED <<trade_id_counter, clock, ok_trades, threads>>

(* product *= s.get_price() for the stocks still to visit *)
RECURSIVE product_loop(_, _, _)
product_loop(stocks, names, product) ==
    IF names = {} THEN Ok(product)
    ELSE LET n == CHOOSE x \in names : TRUE
             r == get_price(stocks[n])
         IN IF r.status # "ok" THEN r
            ELSE product_loop(stocks, names \ {n}, product * r.value)

(* product ** (1.0 / n), kept as the pair of the radicand and the degree *)
Root(product, n) == [of |-> product, degree |-> n]

(* geometric_mean without the test for an empty registry: 1.0 / 0 *)
geometric_mean_unguarded(stocks) ==
    LET r == product_loop(stocks, DOMAIN stocks, 1)
    IN IF r.status # "ok" THEN r
       ELSE IF Cardinality(DOMAIN stocks) = 0
       THEN Raise("ZeroDivisionError", "float division by zero")
       ELSE Ok(Root(r.value, Cardinality(DOMAIN stocks)))

geometric_mean(stocks) ==
    IF Cardinality(DOMAIN stocks) = 0
    THEN Raise("ValueError", "Insufficient data")
    ELSE LET r == product_loop(stocks, DOMAIN stocks, 1)
         IN IF r.status # "ok" THEN r
            ELSE Ok(Root(r.value, Cardinality(DOMAIN stocks)))

get_geometric_mean ==
    LET r == geometric_mean(stocks_by_name)
    IN /\ result' = [op |-> "get_geometric_mean", status |-> r.status,
                     msg |-> r.msg, value |-> r.value]
       /\ UNCHANGED <<stocks_by_name, trade_id_counter, clock, ok_trades, threads>>

(* m.find(name).set_price(price) *)
stock_set_price(name, price) ==
    /\ name \in DOMAIN stocks_by_name
    /\ LET r == set_price(stocks_by_name[name], price)
       IN /\ stocks_by_name' = IF r.status = "ok"
                               THEN [stocks_by_name EXCEPT ![name] = r.value]
                               ELSE stocks_by_name
          /\ result' = Outcome("set_price", r)
    /\ UNCHANGED <<trade_id_counter, clock, ok_trades, threads>>

(* m.find(name).set_last_dividend(last_dividend) *)
set_last_dividend(name, last_dividend) ==
    /\ name \in DOMAIN stocks_by_name
    /\ stocks_by_name[name].kind = "CommonStock"
    /\ stocks_by_name' =
           [stocks_by_name EXCEPT ![name].last_dividend = last_dividend]
    /\ result' = Outcome("set_last_dividend", Ok(None))
    /\ UNCHANGED <<trade_id_counter, clock, ok_trades, threads>>

(* m.find(name).set_fixed_dividend_ratio(fixed_dividend_ratio) *)
set_fixed_dividend_ratio(name, fixed_dividend_ratio) ==
    /\ name \in DOMAIN stocks_by_name
    /\ stocks_by_name[name].kind = "PreferredStock"
    /\ stocks_by_name' =
           [stocks_by_name EXCEPT ![name].fixed_dividend_ratio = fixed_dividend_ratio]
    /\ result' = Outcome("set_fixed_dividend_ratio", Ok(None))
    /\ UNCHANGED <<trade_id_counter, clock, ok_trades, threads>>

(* m.find(name).set_par_value(par_value) *)
set_par_value(name, par_value) ==
    /\ name \in DOMAIN stocks_by_name
    /\ stocks_by_name[name].kind = "PreferredStock"
    /\ stocks_by_name' = [stocks_by_name EXCEPT ![name].par_value = par_value]
    /\ result' = Outcome("set_par_value", Ok(None))
    /\ UNCHANGED <<trade_id_counter, clock, ok_trades, threads>>

(* m.find(name).get_dividend_yield() *)
stock_get_dividend_yield(name) ==
    /\ name \in DOMAIN stocks_by_name
    /\ LET r == get_dividend_yield(stocks_by_name[name])
       IN result' = [op |-> "get_dividend_yield", status |-> r.status,
                     msg |-> r.msg, name |-> name, value |-> r.value]
    /\ UNCHANGED <<stocks_by_name, trade_id_counter, clock, ok_trades, threads>>

(* m.find(name).get_volume_weighted_price() *)
stock_get_volume_weighted_price(name) ==
    /\ name \in DOMAIN stocks_by_name
    /\ LET r == get_volume_weighted_price(stocks_by_name[name], clock)
       IN result' = [op |-> "get_volume_weighted_price", status |-> r.status,
                     msg |-> r.msg, name |-> name, now |-> clock,
                     value |-> r.value]
    /\ UNCHANGED <<stocks_by_name, trade_id_counter, clock, ok_trades, threads>>

(* buy_now / sell_now statement by statement, as caller th runs it.  First *)
(* the test of the name and the evaluation of the argument of add_trade:   *)
(* the Trade is built from the counter and the clock as they are now.      *)
call_build(th, op, stock_name, quantity, price) ==
    /\ calls[th].pc = "idle"
    /\ IF stock_name \notin DOMAIN stocks_by_name
       THEN /\ result' = Outcome(op, Raise("ValueError", "Stock not found"))
            /\ UNCHANGED <<calls, overlapped>>
       ELSE /\ calls' = [calls EXCEPT ![th] =
                            [pc |-> "built", op |-> op,
                             trade |-> Trade(trade_id_counter, stock_name, quantity,
                                             IF op = "buy_now" THEN "BUY" ELSE "SELL",
                                             price, clock)]]
            /\ overlapped' = (overlapped \/ InFlight # {})
            /\ UNCHANGED result
    /\ UNCHANGED <<stocks_by_name, trade_id_counter, clock, ok_trades>>

(* then the call of add_trade on the stock of that name *)
call_add_trade(th) ==
    /\ calls[th].pc = "built"
    /\ LET t == calls[th].trade
           r == add_trade(stocks_by_name[t.stock_name], t)
       IN IF r.status # "ok"
          THEN /\ result' = Outcome(calls[th].op, r)
               /\ calls' = [calls EXCEPT ![th] = Idle]
               /\ UNCHANGED stocks_by_name
          ELSE /\ stocks_by_name' = [stocks_by_name EXCEPT ![t.stock_name] = r.value]
               /\ calls' = [calls EXCEPT ![th].pc = "added"]
               /\ UNCHANGED result
    /\ UNCHANGED <<trade_id_counter, clock, ok_trades, overlapped>>

(* a call_increment that takes two ids *)
call_increment_twice(th) ==
    /\ calls[th].pc = "added"
    /\ trade_id_counter' = trade_id_counter + 2
    /\ ok_trades' = ok_trades + 1
    /\ result' = [op |-> calls[th].op, status |-> "ok", msg |-> "",
                  trade |-> calls[th].trade]
    /\ calls' = [calls EXCEPT ![th] = Idle]
    /\ UNCHANGED <<stocks_by_name, clock, overlapped>>

(* last self.trade_id_counter += 1, after which the call returns *)
call_increment(th) ==
    /\ calls[th].pc = "added"
    /\ trade_id_counter' = trade_id_counter + 1
    /\ ok_trades' = ok_trades + 1
    /\ result' = [op |-> calls[th].op, status |-> "ok", msg |-> "",
                  trade |-> calls[th].trade]
    /\ calls' = [calls EXCEPT ![th] = Idle]
    /\ UNCHANGED <<stocks_by_name, clock, overlapped>>

(* Market.find: the lookup in the dict stocks_by_name, which raises        *)
(* KeyError(name) for a key it does not hold                               *)
find(name) ==
    /\ result' = IF name \in DOMAIN stocks_by_name
                 THEN [op |-> "find", status |-> "ok", msg |-> "",
                       name |-> name, value |-> stocks_by_name[name]]
                 ELSE [op |-> "find", status |-> "KeyError", msg |-> "name",
                       name |-> name, value |-> None]
    /\ UNCHANGED <<stocks_by_name, trade_id_counter, clock, ok_trades, threads>>

(* m.find(name).add_trade(trade): a caller hands a Trade of its own making *)
(* to a registered stock                                                   *)
stock_add_trade(name, trade) ==
    /\ name \in DOMAIN stocks_by_name
    /\ LET r == add_trade(stocks_by_name[name], trade)
       IN /\ stocks_by_name' = IF r.status = "ok"
                               THEN [stocks_by_name EXCEPT ![name] = r.value]
                               ELSE stocks_by_name
          /\ result' = [op |-> "add_trade", status |-> r.status, msg |-> r.msg,
                        name |-> name, trade |-> trade]
    /\ UNCHANGED <<trade_id_counter, clock, ok_trades, threads>>

-----------------------------------------------------------------------------
(* The stock objects the constructor calls over the given arguments return *)
NewStocks(commonArgs, preferredArgs) ==
    {CommonStock(a[1], a[2], a[3]).value :
        a \in {x \in commonArgs : CommonStock(x[1], x[2], x[3]).status = "ok"}}
    \cup
    {PreferredStock(a[1], a[2], a[3], a[4]).value :
        a \in {x \in preferredArgs :
                  PreferredStock(x[1], x[2], x[3], x[4]).status = "ok"}}

-----------------------------------------------------------------------------
(* The Market seen by its callers: stocks of both variants are registered, *)
(* traded and repriced; the clock stands still.                            *)

Prices == {0, 1}
Quantities == {1}

CommonArgs == NameArgs \X {1} \X Prices
PreferredArgs == NameArgs \X {2} \X {3} \X Prices

MarketStocks == NewStocks(CommonArgs, PreferredArgs)
MarketPriceMaps == PriceMaps({TEA, ZZZ}, Prices, 2)

Next ==
    \/ \E stock \in MarketStocks : register(stock)
    \/ /\ trade_id_counter <= MaxTrades
       /\ \E n \in Symbols, q \in Quantities, p \in Prices : buy_now(n, q, p)
    \/ /\ trade_id_counter <= MaxTrades
       /\ \E n \in Symbols, q \in Quantities, p \in Prices : sell_now(n, q, p)
    \/ \E m \in MarketPriceMaps : update_stock_prices(m)
    \/ get_geometric_mean
    \/ \E n \in Symbols, p \in Prices : stock_set_price(n, p)

Spec == Init /\ [][Next]_vars

-----------------------------------------------------------------------------
(* Stocks of both variants are constructed from names of every shape, and  *)
(* the constructed ones are registered.                                    *)

NewCommonArgs == NameArgs \X {0, 1} \X {0, 1, 2}
NewPreferredArgs == NameArgs \X {1, 2} \X {3} \X {0, 1, 2}

ConstructedStocks == NewStocks(NewCommonArgs, NewPreferredArgs)

NextConstruct ==
    \/ \E a \in NewCommonArgs : new_CommonStock(a[1], a[2], a[3])
    \/ \E a \in NewPreferredArgs : new_PreferredStock(a[1], a[2], a[3], a[4])
    \/ \E stock \in ConstructedStocks : register(stock)

SpecConstruct == Init /\ [][NextConstruct]_vars

-----------------------------------------------------------------------------
(* Stocks are registered and repriced, one at a time and in batches whose  *)
(* maps hold registered and unknown names in every order.                  *)

UpdatePrices == {0, 1, 2}
UpdateStocks == NewStocks({TEA, TEAX} \X {1} \X UpdatePrices,
                          {TEA, TEAX} \X {2} \X {3} \X UpdatePrices)
UpdatePriceMaps == PriceMaps(Symbols, UpdatePrices, 2)

NextUpdate ==
    \/ \E stock \in UpdateStocks : register(stock)
    \/ \E n \in Symbols, p \in UpdatePrices : stock_set_price(n, p)
    \/ \E m \in UpdatePriceMaps : update_stock_prices(m)

SpecUpdate == Init /\ [][NextUpdate]_vars

-----------------------------------------------------------------------------
(* One stock is registered and traded while time passes, and its           *)
(* volume-weighted price is queried.                                       *)

VwpPrices == {1, 2}
VwpQuantities == {0, 1, 2}

VwpStocks == NewStocks({<<TEA, 1, 1>>}, {})

NextVWP ==
    \/ Tick
    \/ \E stock \in VwpStocks : register(stock)
    \/ /\ trade_id_counter <= MaxTrades
       /\ \E q \in VwpQuantities, p \in VwpPrices : buy_now(TEA, q, p)
    \/ /\ trade_id_counter <= MaxTrades
       /\ \E q \in VwpQuantities, p \in VwpPrices : sell_now(TEA, q, p)
    \/ stock_get_volume_weighted_price(TEA)

SpecVWP == Init /\ [][NextVWP]_vars

-----------------------------------------------------------------------------
(* One stock of either variant is registered; its price and its dividend   *)
(* attributes are changed by every operation that can change them, and its *)
(* dividend yield is queried.                                              *)

YieldPrices == {0, 1, 2}
Dividends == {0, 1, 2}
Ratios == {1, 2}
ParValues == {1, 3}

YieldStocks == NewStocks({TEA} \X Dividends \X YieldPrices,
                         {TEA} \X Ratios \X ParValues \X YieldPrices)
YieldPriceMaps == PriceMaps({TEA, ZZZ}, YieldPrices, 1)

NextYield ==
    \/ \E stock \in YieldStocks : register(stock)
    \/ \E p \in YieldPrices : stock_set_price(TEA, p)
    \/ \E m \in YieldPriceMaps : update_stock_prices(m)
    \/ /\ trade_id_counter <= MaxTrades
       /\ \E p \in YieldPrices : buy_now(TEA, 1, p)
    \/ /\ trade_id_counter <= MaxTrades
       /\ \E p \in YieldPrices : sell_now(TEA, 1, p)
    \/ \E d \in Dividends : set_last_dividend(TEA, d)
    \/ \E f \in Ratios : set_fixed_dividend_ratio(TEA, f)
    \/ \E v \in ParValues : set_par_value(TEA, v)
    \/ stock_get_dividend_yield(TEA)

SpecYield == Init /\ [][NextYield]_vars

-----------------------------------------------------------------------------
(* Stocks are looked up, traded through the market and handed trades       *)
(* directly by their callers.                                              *)

StockPrices == {1}

StockStocks == NewStocks({<<TEA, 1, 1>>}, {<<TEAX, 2, 3, 1>>})

(* the Trade objects a caller builds at the instant now *)
CallerTrades(now) ==
    {Trade(0, n, 1, "BUY", 0, now) : n \in {TEA, TEAX}}

NextStock ==
    \/ \E stock \in StockStocks : register(stock)
    \/ \E n \in Symbols : find(n)
    \/ /\ trade_id_counter <= MaxTrades
       /\ \E n \in Symbols, p \in StockPrices : buy_now(n, 1, p)
    \/ /\ trade_id_counter <= MaxTrades
       /\ \E n \in Symbols, p \in StockPrices : sell_now(n, 1, p)
    \/ \E n \in Symbols, t \in CallerTrades(clock) :
          /\ n \in DOMAIN stocks_by_name
          /\ Len(stocks_by_name[n].trades) < MaxTrades
          /\ stock_add_trade(n, t)

SpecStock == Init /\ [][NextStock]_vars

-----------------------------------------------------------------------------
(* One stock is traded in amounts whose sums need more bits than a float   *)
(* has, and its volume-weighted price is queried.                          *)

FloatPrices == {0, 3}
FloatQuantities == {0, 1, 3}

NextFloat ==
    \/ Tick
    \/ \E stock \in VwpStocks : register(stock)
    \/ /\ trade_id_counter <= MaxTrades
       /\ \E q \in FloatQuantities, p \in FloatPrices : buy_now(TEA, q, p)
    \/ /\ trade_id_counter <= MaxTrades
       /\ \E q \in FloatQuantities, p \in FloatPrices : sell_now(TEA, q, p)
    \/ stock_get_volume_weighted_price(TEA)

SpecFloat == Init /\ [][NextFloat]_vars

-----------------------------------------------------------------------------
(* Two callers trade on the same market, their calls interleaved statement *)
(* by statement.                                                           *)

ThreadPrices == {1, 2}

ThreadStocks == NewStocks({<<TEA, 1, 1>>}, {<<TEAX, 2, 3, 1>>})

NextThreads ==
    \/ \E stock \in ThreadStocks : register(stock)
    \/ /\ ok_trades + Cardinality(InFlight) < MaxTrades
       /\ \E th \in Threads, op \in {"buy_now", "sell_now"}, n \in Symbols,
             p \in ThreadPrices : call_build(th, op, n, 1, p)
    \/ \E th \in Threads : call_add_trade(th)
    \/ \E th \in Threads : call_increment(th)

SpecThreads == Init /\ [][NextThreads]_vars

-----------------------------------------------------------------------------
(* Two stocks are traded while time passes, and their prices are set one   *)
(* at a time and in batches.                                               *)

SetterStocks == NewStocks({<<TEA, 1, 1>>}, {<<TEAX, 2, 3, 1>>})
SetterPriceMaps == PriceMaps({TEA, ZZZ}, {0}, 1)

NextSetters ==
    \/ Tick
    \/ \E stock \in SetterStocks : register(stock)
    \/ /\ trade_id_counter <= MaxTrades
       /\ \E n \in {TEA, TEAX} : buy_now(n, 1, 1)
    \/ /\ trade_id_counter <= MaxTrades
       /\ sell_now(TEA, 2, 2)
    \/ \E n \in {TEA, TEAX} : stock_set_price(n, 0)
    \/ \E m \in SetterPriceMaps : update_stock_prices(m)

SpecSetters == Init /\ [][NextSetters]_vars

-----------------------------------------------------------------------------
(* Properties *)

Registered == DOMAIN stocks_by_name

Traded(r) == r.op \in {"buy_now", "sell_now"}

(* C1: the k-th buy_now/sell_now call that returns records a trade with id *)
(* k, and a call that raises leaves the trade-id counter alone: the        *)
(* counter is always one more than the number of calls that returned, and  *)
(* the trade such a call put at the end of its stock's log carries that    *)
(* number as its id.                                                       *)
C1_TradeIds ==
    /\ trade_id_counter = ok_trades + 1
    /\ (Traded(result) /\ result.status = "ok") =>
          /\ result.trade.trade_id = ok_trades
          /\ LET log == stocks_by_name[result.trade.stock_name].trades
             IN Len(log) > 0 /\ log[Len(log)] = result.trade

(* the second call that returned, after at least one call that raised or   *)
(* not, has recorded its trade                                             *)
C1_Witness ==
    /\ result.op = "sell_now"
    /\ result.status = "ok"
    /\ ok_trades = 2

RECURSIVE SumPQ(_)
SumPQ(trades) ==
    IF trades = <<>> THEN 0
    ELSE Head(trades).traded_price * Head(trades).quantity + SumPQ(Tail(trades))

RECURSIVE SumQ(_)
SumQ(trades) ==
    IF trades = <<>> THEN 0 ELSE Head(trades).quantity + SumQ(Tail(trades))

(* the logged trades that are not older than the window ending at now *)
InWindow(trades, now) ==
    SelectSeq(trades, LAMBDA t : t.timestamp >= now - Window)

(* C3: get_volume_weighted_price returns sum(price * quantity) /           *)
(* sum(quantity) over exactly the logged trades with timestamp >= now -    *)
(* Window, and 0 when no logged trade is in the window.  The quotient is   *)
(* stated where it exists, that is, where the quantities in the window do  *)
(* not add up to 0.                                                        *)
C3_VolumeWeightedPrice ==
    result.op = "get_volume_weighted_price" =>
        LET inw == InWindow(stocks_by_name[result.name].trades, result.now)
        IN /\ result.status = "ok"
           /\ result.value.den # 0
           /\ Len(inw) = 0 => FracEq(result.value, Zero)
           /\ SumQ(inw) # 0 =>
                  result.value.num * SumQ(inw) = SumPQ(inw) * result.value.den

(* a query that found one trade inside the window, one outside it, and a   *)
(* price that is not 0                                                     *)
C3_Witness ==
    /\ result.op = "get_volume_weighted_price"
    /\ LET log == stocks_by_name[result.name].trades
           inw == InWindow(log, result.now)
       IN /\ 0 < Len(inw)
          /\ Len(inw) < Len(log)
          /\ SumQ(inw) # 0
          /\ result.value.num # 0

RECURSIVE PriceProduct(_)
PriceProduct(names) ==
    IF names = {} THEN 1
    ELSE LET n == CHOOSE x \in names : TRUE
         IN stocks_by_name[n].price * PriceProduct(names \ {n})

(* C4: with n >= 1 registered stocks get_geometric_mean returns the n-th   *)
(* root of the product of the current prices of the registered stocks.     *)
C4_GeometricMean ==
    (result.op = "get_geometric_mean" /\ Cardinality(Registered) >= 1) =>
        /\ result.status = "ok"
        /\ result.value = Root(PriceProduct(Registered), Cardinality(Registered))

(* C5: get_geometric_mean on a Market without stocks raises                *)
(* ValueError("Insufficient data") and changes neither the registry nor    *)
(* the trade-id counter.                                                   *)
C5_InsufficientData ==
    [][(result'.op = "get_geometric_mean" /\ Registered = {}) =>
          /\ result'.status = "ValueError"
          /\ result'.msg = "Insufficient data"
          /\ UNCHANGED <<stocks_by_name, trade_id_counter, threads>>]_vars

C5_Witness ==
    /\ result.op = "get_geometric_mean"
    /\ result.status = "ValueError"
    /\ Registered = {}

(* C6: register of a name that is registered raises                        *)
(* ValueError("Already registered") and changes nothing: a register call   *)
(* either raises and leaves the registry (the stock objects with their     *)
(* prices and logs) and the trade-id counter as they were, or returns      *)
(* having added one new name and left every other entry as it was.         *)
C6_DuplicateRegister ==
    [][(result'.op = "register" /\ clock' = clock) =>
          IF result'.status = "ok"
          THEN /\ \E n \in DOMAIN stocks_by_name' :
                      /\ n \notin Registered
                      /\ DOMAIN stocks_by_name' = Registered \cup {n}
               /\ \A n \in Registered : stocks_by_name'[n] = stocks_by_name[n]
          ELSE /\ result'.status = "ValueError"
               /\ result'.msg = "Already registered"
               /\ UNCHANGED <<stocks_by_name, trade_id_counter, threads>>]_vars

(* a register call has raised on a Market whose stock of that name has a   *)
(* trade in its log                                                        *)
C6_Witness ==
    /\ result.op = "register"
    /\ result.status = "ValueError"
    /\ \E n \in Registered : Len(stocks_by_name[n].trades) > 0

Keys(m) == {m[i][1] : i \in DOMAIN m}
PriceOf(m, n) == m[CHOOSE i \in DOMAIN m : m[i][1] = n][2]

(* C7: update_stock_prices(m) returns whatever names m holds and wherever  *)
(* the unknown ones stand; afterwards every registered name in m has the   *)
(* price m gives it, every registered name not in m has its old price, and *)
(* the registered names are the same.                                      *)
C7_UpdateStockPrices ==
    [][result'.op = "update_stock_prices" =>
          \A m \in UpdatePriceMaps :
              update_stock_prices(m) =>
                  /\ result'.status = "ok"
                  /\ DOMAIN stocks_by_name' = Registered
                  /\ \A n \in Registered :
                        stocks_by_name'[n].price =
                            IF n \in Keys(m) THEN PriceOf(m, n)
                            ELSE stocks_by_name[n].price]_vars

(* a call whose map held an unknown name has returned on a Market with     *)
(* two registered stocks, whose prices now differ                          *)
C7_Witness ==
    /\ result.op = "update_stock_prices"
    /\ result.status = "ok"
    /\ result.printed = 1
    /\ Cardinality(Registered) = 2
    /\ \E n, k \in Registered : stocks_by_name[n].price # stocks_by_name[k].price

(* C8: buy_now/sell_now of a name that is not registered raises            *)
(* ValueError("Stock not found") and changes nothing: a call that returns  *)
(* traded a registered name, and a call that raises leaves the registry    *)
(* (names, prices, logs) and the trade-id counter as they were.            *)
C8_UnknownSymbol ==
    [][(Traded(result') /\ clock' = clock) =>
          IF result'.status = "ok"
          THEN result'.trade.stock_name \in Registered
          ELSE /\ result'.status = "ValueError"
               /\ result'.msg = "Stock not found"
               /\ UNCHANGED <<stocks_by_name, trade_id_counter, threads>>]_vars

(* a call has raised on a Market that holds a stock and a recorded trade *)
C8_Witness ==
    /\ Traded(result)
    /\ result.status = "ValueError"
    /\ result.msg = "Stock not found"
    /\ ok_trades >= 1

(* the dividend the variant's formula divides by the price *)
Dividend(stock) ==
    IF stock.kind = "CommonStock" THEN stock.last_dividend
    ELSE stock.fixed_dividend_ratio * stock.par_value

(* C9: get_dividend_yield never raises; it returns 0 when the price is 0   *)
(* and otherwise the value y with y * price = last_dividend (CommonStock)  *)
(* or y * price = fixed_dividend_ratio * par_value (PreferredStock), for   *)
(* the stock's current price and dividend attributes.                      *)
C9_DividendYield ==
    result.op = "get_dividend_yield" =>
        LET stock == stocks_by_name[result.name]
        IN /\ result.status = "ok"
           /\ result.value.den # 0
           /\ IF stock.price = 0 THEN FracEq(result.value, Zero)
              ELSE result.value.num * stock.price
                       = Dividend(stock) * result.value.den

(* the yield of a preferred stock whose price a trade has set to 0 *)
C9_Witness ==
    /\ result.op = "get_dividend_yield"
    /\ LET stock == stocks_by_name[result.name]
       IN /\ stock.kind = "PreferredStock"
          /\ stock.price = 0
          /\ Len(stock.trades) > 0

(* exactly three upper-case letters *)
ThreeUpper(name) ==
    /\ name # None
    /\ Len(name) = 3
    /\ \A i \in 1..3 : name[i] \in Upper

Constructing(r) == r.op \in {"CommonStock", "PreferredStock"}

(* C10: a constructor returns a stock with an empty log when the name is   *)
(* exactly three upper-case letters and raises ValueError("Invalid stock   *)
(* name") for every other name, so every registered name is exactly three  *)
(* upper-case letters.                                                     *)
C10_SymbolShape ==
    /\ Constructing(result) =>
          IF ThreeUpper(result.name)
          THEN result.status = "ok" /\ result.trades = <<>>
          ELSE result.status = "ValueError" /\ result.msg = "Invalid stock name"
    /\ \A n \in Registered : ThreeUpper(n)


(***************************************************************************)
(* C11: within every stock's trade log the timestamps never decrease from  *)
(* one trade to the next, so the log is in chronological order.  The clock *)
(* read by buy_now and sell_now is taken to be monotone.                   *)
(***************************************************************************)
C11_TimestampsOrdered ==
    \A n \in Registered :
        LET log == stocks_by_name[n].trades
        IN \A i \in 1..(Len(log) - 1) : log[i].timestamp <= log[i + 1].timestamp

(* a log holding two trades made at different instants *)
C11_Witness ==
    \E n \in Registered :
        LET log == stocks_by_name[n].trades
        IN Len(log) >= 2 /\ log[1].timestamp < log[Len(log)].timestamp

(***************************************************************************)
(* C14: for every stock and every query instant from now on, the backward  *)
(* scan of get_volume_weighted_price, which stops at the first trade older *)
(* than the window, accumulates the same numerator and denominator as a    *)
(* scan that visits every logged trade and filters it by its timestamp.    *)
(***************************************************************************)
QueryInstants == {clock + k * TickStep : k \in 0..MaxTicks}

(* the scan without the early exit: every logged trade is visited, newest  *)
(* first, and taken into the two float sums if it is in the window         *)
RECURSIVE FullScan(_, _, _, _, _)
FullScan(trades, i, limit, nominator, denominator) ==
    IF i = 0 THEN <<nominator, denominator>>
    ELSE IF trades[i].timestamp < limit
         THEN FullScan(trades, i - 1, limit, nominator, denominator)
         ELSE FullScan(trades, i - 1, limit,
                  FloatAdd(nominator, trades[i].traded_price * trades[i].quantity),
                  FloatAdd(denominator, trades[i].quantity))

C14_EarlyExitScan ==
    \A n \in Registered : \A now \in QueryInstants :
        LET log == stocks_by_name[n].trades
        IN vwp_scan(log, Len(log), now - Window, 0, 0) =
               FullScan(log, Len(log), now - Window, 0, 0)

(* the scan stops early: the newest trade is in the window, an older one   *)
(* with a positive quantity is not                                         *)
C14_Witness ==
    \E n \in Registered :
        LET log == stocks_by_name[n].trades
            inw == InWindow(log, clock)
        IN /\ 0 < Len(inw) /\ Len(inw) < Len(log)
           /\ log[1].quantity > 0
           /\ SumQ(inw) > 0


Last(log) == log[Len(log)]

IsPrefix(s, t) == Len(s) <= Len(t) /\ SubSeq(t, 1, Len(s)) = s

PriceSetters == {"set_price", "update_stock_prices"}

(***************************************************************************)
(* C15: a trade never leaves a stock's log and price inconsistent.  After  *)
(* a buy_now or sell_now that returned, the target's price is the price of *)
(* the last trade of its log; whenever a log grows the stock's price       *)
(* becomes that of the log's last trade; and a price changes without its   *)
(* log growing only in a set_price or update_stock_prices call, so that at *)
(* any instant the price is the last trade's or one set by a later call of *)
(* those two.                                                              *)
(***************************************************************************)
C15_AfterTrade ==
    (Traded(result) /\ result.status = "ok") =>
        LET s == stocks_by_name[result.trade.stock_name]
        IN /\ Len(s.trades) > 0
           /\ s.price = Last(s.trades).traded_price
           /\ s.price = result.trade.traded_price

C15_PriceStep ==
    \A n \in Registered :
        LET s == stocks_by_name[n]
            t == stocks_by_name'[n]
        IN /\ n \in DOMAIN stocks_by_name'
           /\ t.trades # s.trades =>
                  Len(t.trades) > 0 /\ t.price = Last(t.trades).traded_price
           /\ (t.trades = s.trades /\ t.price # s.price) =>
                  result'.op \in PriceSetters

C15_PriceAndLog == []C15_AfterTrade /\ [][C15_PriceStep]_vars

(* a set_price after a trade: the price is no longer the last trade's *)
C15_Witness ==
    /\ result.op = "set_price"
    /\ \E n \in Registered :
          LET s == stocks_by_name[n]
          IN Len(s.trades) > 0 /\ s.price # Last(s.trades).traded_price

(***************************************************************************)
(* C16: trade logs are append-only.  A buy_now or sell_now that returns    *)
(* appends exactly one trade, carrying the given symbol, quantity and      *)
(* price and the side of the call, at the end of the target stock's log    *)
(* and leaves every other stock's log and price as they were; in every     *)
(* step each stock's log is a prefix of its later log.                     *)
(***************************************************************************)
C16_LogStep ==
    /\ \A n \in Registered :
          /\ n \in DOMAIN stocks_by_name'
          /\ IsPrefix(stocks_by_name[n].trades, stocks_by_name'[n].trades)
    /\ (Traded(result') /\ result'.status = "ok" /\ ok_trades' = ok_trades + 1) =>
          LET n == result'.trade.stock_name
          IN /\ n \in Registered
             /\ stocks_by_name'[n].trades =
                    Append(stocks_by_name[n].trades, result'.trade)
             /\ \A o \in Registered \ {n} : stocks_by_name'[o] = stocks_by_name[o]
    /\ \A n \in Symbols, q \in Quantities, p \in Prices :
          /\ (buy_now(n, q, p) /\ result'.status = "ok") =>
                 /\ result'.trade.stock_name = n
                 /\ result'.trade.quantity = q
                 /\ result'.trade.traded_price = p
                 /\ result'.trade.indicator = "BUY"
                 /\ Last(stocks_by_name'[n].trades) = result'.trade
          /\ (sell_now(n, q, p) /\ result'.status = "ok") =>
                 /\ result'.trade.stock_name = n
                 /\ result'.trade.quantity = q
                 /\ result'.trade.traded_price = p
                 /\ result'.trade.indicator = "SELL"
                 /\ Last(stocks_by_name'[n].trades) = result'.trade

C16_AppendOnly == [][C16_LogStep]_vars

(* a second trade was appended to a log while another stock is registered *)
C16_Witness ==
    /\ Traded(result) /\ result.status = "ok"
    /\ Len(stocks_by_name[result.trade.stock_name].trades) = 2
    /\ Cardinality(Registered) >= 2

(***************************************************************************)
(* C17: set_price and update_stock_prices change prices only: the set of   *)
(* registered symbols, every stock's trade log and other fields and the    *)
(* trade-id counter stay as they were, and the volume-weighted price of    *)
(* every stock, asked now or later, is the same as before the call.        *)
(***************************************************************************)
C17_SetterStep ==
    result'.op \in PriceSetters =>
        /\ DOMAIN stocks_by_name' = DOMAIN stocks_by_name
        /\ trade_id_counter' = trade_id_counter
        /\ \A n \in Registered :
              LET s == stocks_by_name[n]
                  t == stocks_by_name'[n]
              IN /\ t.trades = s.trades
                 /\ [t EXCEPT !.price = s.price] = s
                 /\ \A now \in {clock, clock + Window} :
                        get_volume_weighted_price(t, now) =
                            get_volume_weighted_price(s, now)

C17_PricesOnly == [][C17_SetterStep]_vars

(* update_stock_prices has moved the price of a stock away from that of    *)
(* its last trade                                                          *)
C17_Witness ==
    /\ result.op = "update_stock_prices"
    /\ result.status = "ok"
    /\ \E n \in Registered :
          LET s == stocks_by_name[n]
          IN Len(s.trades) > 0 /\ s.price # Last(s.trades).traded_price

(***************************************************************************)
(* C19: the trade ids found across all trade logs are pairwise distinct,   *)
(* strictly increasing within each log, and together exactly the integers  *)
(* from 1 up to one less than the trade-id counter.                        *)
(***************************************************************************)
LoggedIds(n) ==
    {stocks_by_name[n].trades[i].trade_id : i \in DOMAIN stocks_by_name[n].trades}

C19_IdsPartition ==
    /\ \A n \in Registered :
          LET log == stocks_by_name[n].trades
          IN \A i \in DOMAIN log : \A j \in DOMAIN log :
                 i < j => log[i].trade_id < log[j].trade_id
    /\ \A n \in Registered : \A o \in Registered \ {n} :
          LoggedIds(n) \cap LoggedIds(o) = {}
    /\ UNION {LoggedIds(n) : n \in Registered} = 1..(trade_id_counter - 1)

(* two stocks hold one trade each *)
C19_Witness ==
    /\ ok_trades = 2
    /\ \E n \in Registered : \E o \in Registered \ {n} :
          Len(stocks_by_name[n].trades) = 1 /\ Len(stocks_by_name[o].trades) = 1


(***************************************************************************)
(* C12: every trade in a stock's log carries that stock's own symbol, and  *)
(* every registry key is the symbol of the stock it maps to.  add_trade    *)
(* with a trade of another symbol raises ValueError "Cannot trade" and     *)
(* leaves the stock's price and log as they were; buy_now and sell_now     *)
(* record their trade under the stock of the symbol they were given.       *)
(***************************************************************************)
C12_OwnSymbol ==
    \A n \in Registered :
        LET s == stocks_by_name[n]
        IN /\ s.name = n
           /\ \A i \in DOMAIN s.trades : s.trades[i].stock_name = n

C12_AddTradeStep ==
    /\ result'.op = "add_trade" =>
          IF result'.trade.stock_name # result'.name
          THEN /\ result'.status = "ValueError"
               /\ result'.msg = "Cannot trade"
               /\ stocks_by_name' = stocks_by_name
          ELSE /\ result'.status = "ok"
               /\ Last(stocks_by_name'[result'.name].trades) = result'.trade
    /\ (Traded(result') /\ result'.status = "ok" /\ ok_trades' = ok_trades + 1) =>
          /\ stocks_by_name'[result'.trade.stock_name].name = result'.trade.stock_name
          /\ Last(stocks_by_name'[result'.trade.stock_name].trades) = result'.trade

C12_SymbolMatch == []C12_OwnSymbol /\ [][C12_AddTradeStep]_vars

(* a stock that holds a trade has just refused a trade of another symbol *)
C12_Witness ==
    /\ result.op = "add_trade"
    /\ result.status = "ValueError"
    /\ result.trade.stock_name # result.name
    /\ Len(stocks_by_name[result.name].trades) > 0

(***************************************************************************)
(* C13: find(symbol) fails with the error buy_now and sell_now report for  *)
(* an unregistered symbol (ValueError "Stock not found") when the symbol   *)
(* is not registered, and returns the stock registered under the symbol    *)
(* otherwise; a registered symbol stays registered to the same stock.      *)
(***************************************************************************)
C13_FindResult ==
    result.op = "find" =>
        IF result.name \in Registered
        THEN /\ result.status = "ok"
             /\ result.value = stocks_by_name[result.name]
        ELSE /\ result.status = "ValueError"
             /\ result.msg = "Stock not found"

C13_RegistryStep ==
    \A n \in Registered :
        /\ n \in DOMAIN stocks_by_name'
        /\ stocks_by_name'[n].name = stocks_by_name[n].name
        /\ stocks_by_name'[n].kind = stocks_by_name[n].kind

C13_Find == []C13_FindResult /\ [][C13_RegistryStep]_vars


TradedPrices(trades) == {trades[i].traded_price : i \in DOMAIN trades}

MinPrice(trades) ==
    CHOOSE p \in TradedPrices(trades) : \A o \in TradedPrices(trades) : p <= o

MaxPrice(trades) ==
    CHOOSE p \in TradedPrices(trades) : \A o \in TradedPrices(trades) : p >= o

AllPositive(trades) == \A i \in DOMAIN trades : trades[i].quantity > 0

(* get_volume_weighted_price has just answered for a stock whose logged    *)
(* quantities are all positive and that has a trade in the window          *)
VwpOfPositiveLog ==
    /\ result.op = "get_volume_weighted_price"
    /\ AllPositive(stocks_by_name[result.name].trades)
    /\ Len(InWindow(stocks_by_name[result.name].trades, result.now)) > 0

(* the value returned lies between the lowest and the highest price of the *)
(* trades in the window                                                    *)
WithinPriceRange ==
    LET inw == InWindow(stocks_by_name[result.name].trades, result.now)
    IN /\ result.status = "ok"
       /\ result.value.den > 0
       /\ MinPrice(inw) * result.value.den <= result.value.num
       /\ result.value.num <= MaxPrice(inw) * result.value.den

(* the two sums of the scan, as accumulated in floats, are the exact sums *)
SumsExact ==
    LET log == stocks_by_name[result.name].trades
        inw == InWindow(log, result.now)
    IN vwp_scan(log, Len(log), result.now - Window, 0, 0) =
           <<SumPQ(inw), SumQ(inw)>>

(***************************************************************************)
(* C20 as stated: whenever a trade is in the window and all logged         *)
(* quantities are positive, get_volume_weighted_price returns a value      *)
(* between the minimum and the maximum price of the trades in the window   *)
(* (inclusive).                                                            *)
(***************************************************************************)
C20_WithinBounds == VwpOfPositiveLog => WithinPriceRange

(***************************************************************************)
(* C20, amended: whenever a trade is in the window and all logged          *)
(* quantities are positive, get_volume_weighted_price divides by a         *)
(* positive sum of quantities (it does not fall back to 0), and the value  *)
(* returned lies between the minimum and the maximum price of the trades   *)
(* in the window provided the float sums of the scan were accumulated      *)
(* without rounding.                                                       *)
(***************************************************************************)
C20_WithinBoundsIfExact ==
    VwpOfPositiveLog =>
        LET log == stocks_by_name[result.name].trades
        IN /\ result.status = "ok"
           /\ vwp_scan(log, Len(log), result.now - Window, 0, 0)[2] > 0
           /\ result.value.den > 0
           /\ SumsExact => WithinPriceRange

(* two trades of different prices in the window, summed without rounding:  *)
(* the value lies strictly between the two prices                          *)
C20_Witness ==
    /\ VwpOfPositiveLog
    /\ SumsExact
    /\ LET inw == InWindow(stocks_by_name[result.name].trades, result.now)
       IN /\ MinPrice(inw) * result.value.den < result.value.num
          /\ result.value.num < MaxPrice(inw) * result.value.den


(* the trades found in the logs, each with its place *)
Logged == {<<n, i>> : n \in Registered, i \in 1..MaxTrades + 1} \cap
          {x \in Registered \X (1..MaxTrades + 1) :
              x[2] <= Len(stocks_by_name[x[1]].trades)}

IdOf(x) == stocks_by_name[x[1]].trades[x[2]].trade_id

DistinctIds == \A x \in Logged : \A y \in Logged \ {x} : IdOf(x) # IdOf(y)

GapFreeIds == {IdOf(x) : x \in Logged} = 1..Cardinality(Logged)

(***************************************************************************)
(* C18 as stated: when two buy_now/sell_now calls are interleaved          *)
(* statement by statement (build the Trade from the counter, add_trade,    *)
(* increment the counter), the trades recorded have pairwise distinct ids  *)
(* and the ids have no gap.                                                *)
(***************************************************************************)
C18_InterleavedIds == DistinctIds /\ GapFreeIds

(***************************************************************************)
(* C18, amended: when two buy_now/sell_now calls are interleaved statement *)
(* by statement, the counter still advances by one with every call that    *)
(* returns and every recorded trade has an id below or at the counter, but *)
(* the ids are distinct and without gap only as long as no call has begun  *)
(* while another call was between building its Trade and incrementing the  *)
(* counter; once calls have overlapped and returned, two of the recorded   *)
(* trades carry the same id and an id below the counter is missing.        *)
(***************************************************************************)
C18_SerializedIds ==
    /\ trade_id_counter = ok_trades + 1
    /\ Cardinality(Logged) =
           ok_trades + Cardinality({th \in Threads : calls[th].pc = "added"})
    /\ \A x \in Logged : IdOf(x) \in 1..trade_id_counter
    /\ ~overlapped => DistinctIds /\ GapFreeIds
    /\ (overlapped /\ InFlight = {}) => ~DistinctIds /\ ~GapFreeIds

(* both callers have returned from calls that overlapped *)
C18_Witness ==
    /\ overlapped
    /\ ok_trades = 2
    /\ InFlight = {}
    /\ Cardinality(Logged) = 2

====
